---------------------------- MODULE Spec2Model ----------------------------
(* A model of the PiStorage class (Pi Storage - Mathematical Data Encoding  *)
(* System): the base codec, the digit source with its cache, the sequence   *)
(* locator and encode/decode.                                               *)
(*                                                                          *)
(* Strings are sequences of UTF-16 code units (integers 0..65535); a digit  *)
(* sequence is a sequence of integers. Indices in the formulas are the      *)
(* program's 0-based indices; TLA+ sequences are 1-based, so digit s of the *)
(* program is D[s + 1].                                                     *)
EXTENDS Integers, Sequences, FiniteSets, TLC

VARIABLES baseDigitsCache, ret, encoded, calls

vars == <<baseDigitsCache, ret, encoded, calls>>

-----------------------------------------------------------------------------
(* Bounds of the model                                                      *)

\* Number of digits kept of each hard-coded constant string (101 in the
\* program: "3." and 100 decimals).
SeedLen == 4

\* Digits a default request asks for beyond the seed (the program's default
\* maxDigits is 10000, that is 9899 digits beyond the seed).
TailLen == 3

\* The values successive Math.random() calls return within one operation
\* repeat with this period; each value of one period is chosen freely.
RandomPeriod == 2

\* Largest number rendered by the base codec.
MaxNumber == 40

\* Calls made in one run of the specifications that count calls.
MaxCalls == 2

-----------------------------------------------------------------------------
(* The constructor's data                                                   *)

\* Leading digits of the three strings, the decimal point removed.
PiDigits == <<3, 1, 4, 1, 5, 9, 2, 6, 5, 3, 5, 8>>

EDigits == <<2, 7, 1, 8, 2, 8, 1, 8, 2, 8, 4, 5>>

PhiDigits == <<1, 6, 1, 8, 0, 3, 3, 9, 8, 8, 7, 4>>

\* this.constants, each string as the digits of
\* constants[c].replace('.', '').split(''), cut to SeedLen.
constants ==
    [pi  |-> SubSeq(PiDigits, 1, SeedLen),
     e   |-> SubSeq(EDigits, 1, SeedLen),
     phi |-> SubSeq(PhiDigits, 1, SeedLen)]

\* this.baseDigitsCache = new Map()
EmptyCache == [k \in {} |-> <<>>]

\* maxDigits = 10000, the default of getConstantInBase, scaled with the seed.
DefaultMaxDigits == SeedLen + TailLen

\* One period of Math.random() results, each already through
\* Math.floor(Math.random() * 10).
RandomTapes == [1..RandomPeriod -> 0..9]

\* The k-th (k >= 1) Math.floor(Math.random() * 10) of an operation.
RandomDigit(tape, k) == tape[((k - 1) % RandomPeriod) + 1]

\* The tapes an operation chooses from: all of them when it may reach
\* Math.random(), and one (never read) when it cannot.
TapesFor(mayDraw) ==
    IF mayDraw THEN RandomTapes ELSE {[i \in 1..RandomPeriod |-> 0]}

-----------------------------------------------------------------------------
(* Base codec                                                               *)

BaseInRange(base) == ~(base < 2 \/ base > 65536)

\* The code unit numberToBase pushes for one remainder.
DigitChar(remainder, base) ==
    IF base <= 36
    THEN IF remainder < 10 THEN 48 + remainder ELSE 65 + remainder - 10
    ELSE remainder

RECURSIVE NumberToBaseLoop(_, _, _)
\* while (number > 0) { result.unshift(...); number = Math.floor(number / base) }
NumberToBaseLoop(number, base, result) ==
    IF number > 0
    THEN NumberToBaseLoop(number \div base, base,
                          <<DigitChar(number % base, base)>> \o result)
    ELSE result

\* numberToBase(number, base): the text, or the thrown error.
numberToBase(number, base) ==
    IF ~BaseInRange(base)
    THEN [threw |-> TRUE, error |-> "Base must be between 2 and 65536"]
    ELSE IF number = 0
    THEN [threw |-> FALSE, text |-> <<48>>]
    ELSE [threw |-> FALSE, text |-> NumberToBaseLoop(number, base, <<>>)]

\* The value baseToNumber gives one character; -1 where it throws.
CharValue(char, base) ==
    IF base <= 36
    THEN IF char >= 48 /\ char <= 57 THEN char - 48
         ELSE IF char >= 65 /\ char <= 90 THEN 10 + (char - 65)
         ELSE IF char >= 97 /\ char <= 122 THEN 10 + (char - 97)
         ELSE -1
    ELSE char

RECURSIVE BaseToNumberLoop(_, _, _, _)
\* for (i = 0; i < string.length; i++) { ...; result = result * base + value }
BaseToNumberLoop(string, base, i, result) ==
    IF i > Len(string)
    THEN [threw |-> FALSE, value |-> result]
    ELSE IF CharValue(string[i], base) = -1
    THEN [threw |-> TRUE, error |-> "Invalid character for base"]
    ELSE BaseToNumberLoop(string, base, i + 1,
                          result * base + CharValue(string[i], base))

\* baseToNumber(string, base): the number, or the thrown error.
baseToNumber(string, base) ==
    IF ~BaseInRange(base)
    THEN [threw |-> TRUE, error |-> "Base must be between 2 and 65536"]
    ELSE BaseToNumberLoop(string, base, 1, 0)

-----------------------------------------------------------------------------
(* Message codec                                                            *)

\* messageToNumbers(message): message.charCodeAt(i) for each i.
messageToNumbers(message) == [i \in 1..Len(message) |-> message[i]]

\* numbersToMessage(numbers): String.fromCharCode(num) for each num.
numbersToMessage(numbers) == [i \in 1..Len(numbers) |-> numbers[i] % 65536]

-----------------------------------------------------------------------------
(* Digit source                                                             *)

\* `${constant}_${base}_${maxDigits}`
CacheKey(constant, base, maxDigits) == <<constant, base, maxDigits>>

\* this.constants[constant] is defined
KnownConstant(constant) == constant \in DOMAIN constants

\* The loop over constantDigits: parseInt(digit) is pushed in both branches
\* of the test base === 10.
ConvertDigits(constant, base) ==
    [i \in 1..Len(constants[constant]) |->
        IF base = 10 THEN constants[constant][i] ELSE constants[constant][i]]

RECURSIVE Extend(_, _, _, _)
\* while (result.length < maxDigits) result.push(Math.floor(Math.random() * 10))
\* drawn counts the Math.random() calls the operation has made so far.
Extend(result, maxDigits, tape, drawn) ==
    IF Len(result) < maxDigits
    THEN Extend(Append(result, RandomDigit(tape, drawn + 1)), maxDigits,
                tape, drawn + 1)
    ELSE [digits |-> result, drawn |-> drawn]

\* getConstantInBase(constant, base, maxDigits) on the cache given: the
\* digits returned (or the error thrown), the cache and the number of
\* Math.random() calls afterwards.
getConstantInBase(cache, constant, base, maxDigits, tape, drawn) ==
    IF CacheKey(constant, base, maxDigits) \in DOMAIN cache
    THEN [threw |-> FALSE,
          digits |-> cache[CacheKey(constant, base, maxDigits)],
          cache |-> cache, drawn |-> drawn]
    ELSE IF ~KnownConstant(constant)
    THEN [threw |-> TRUE, error |-> "Unknown constant",
          cache |-> cache, drawn |-> drawn]
    ELSE LET x == Extend(ConvertDigits(constant, base), maxDigits, tape, drawn)
         IN  [threw |-> FALSE,
              digits |-> x.digits,
              cache |-> cache @@
                        (CacheKey(constant, base, maxDigits) :> x.digits),
              drawn |-> x.drawn]

\* The call would pass the cache lookup and the unknown-constant check and
\* enter the loop that extends the seed.
Misses(cache, constant, base, maxDigits) ==
    /\ CacheKey(constant, base, maxDigits) \notin DOMAIN cache
    /\ KnownConstant(constant)
    /\ Len(constants[constant]) < maxDigits

-----------------------------------------------------------------------------
(* State                                                                    *)

\* No call made yet.
NoCall == [op |-> "none"]

\* No message encoded on this instance yet.
NotEncoded == [done |-> FALSE]

Init ==
    /\ baseDigitsCache = EmptyCache
    /\ ret = NoCall
    /\ encoded = NotEncoded
    /\ calls = 0

\* new PiStorage(): a fresh instance, its cache empty. What the caller still
\* holds of the last call (ret) stays.
NewPiStorage ==
    /\ baseDigitsCache # EmptyCache
    /\ baseDigitsCache' = EmptyCache
    /\ encoded' = NotEncoded
    /\ UNCHANGED <<ret, calls>>

-----------------------------------------------------------------------------
(* Calls of the base codec                                                  *)

CodecBases == {1, 2, 10, 16, 36, 37, 64, 256, 65536, 65537}

\* piStorage.numberToBase(number, base)
NumberToBaseCall(number, base) ==
    /\ ret' = [op |-> "numberToBase", number |-> number, base |-> base,
               out |-> numberToBase(number, base)]
    /\ UNCHANGED <<baseDigitsCache, encoded, calls>>

\* piStorage.baseToNumber(text, base) on the text numberToBase just returned.
BaseToNumberOfRendered ==
    /\ ret.op = "numberToBase"
    /\ ~ret.out.threw
    /\ ret' = [op |-> "baseToNumber", string |-> ret.out.text,
               base |-> ret.base, rendered |-> TRUE, number |-> ret.number,
               out |-> baseToNumber(ret.out.text, ret.base)]
    /\ UNCHANGED <<baseDigitsCache, encoded, calls>>

\* Texts typed by hand: "1z", "A0", "!" and the empty text.
CodecStrings == {<<49, 122>>, <<65, 48>>, <<33>>, <<>>}

\* piStorage.baseToNumber(string, base) on a text of the caller.
BaseToNumberCall(string, base) ==
    /\ ret' = [op |-> "baseToNumber", string |-> string, base |-> base,
               rendered |-> FALSE, number |-> 0,
               out |-> baseToNumber(string, base)]
    /\ UNCHANGED <<baseDigitsCache, encoded, calls>>

NextCodec ==
    \/ \E number \in 0..MaxNumber, base \in CodecBases :
          NumberToBaseCall(number, base)
    \/ BaseToNumberOfRendered
    \/ \E string \in CodecStrings, base \in CodecBases :
          BaseToNumberCall(string, base)

SpecCodec == Init /\ [][NextCodec]_vars

-----------------------------------------------------------------------------
(* Calls of the digit source                                                *)

DigitConstants == {"pi", "xi"}

DigitBases == {2, 16}

DigitCounts == (SeedLen - 1)..(SeedLen + 2)

\* piStorage.getConstantInBase(constant, base, maxDigits)
GetConstantInBaseCall(constant, base, maxDigits) ==
    \E tape \in TapesFor(Misses(baseDigitsCache, constant, base, maxDigits)) :
        \E g \in {getConstantInBase(baseDigitsCache, constant, base,
                                   maxDigits, tape, 0)} :
            /\ baseDigitsCache' = g.cache
            /\ ret' = [op |-> "getConstantInBase", constant |-> constant,
                       base |-> base, maxDigits |-> maxDigits,
                       threw |-> g.threw,
                       digits |-> IF g.threw THEN <<>> ELSE g.digits]
            /\ UNCHANGED encoded

NextDigits ==
    \/ /\ calls < MaxCalls
       /\ calls' = calls + 1
       /\ \E constant \in DigitConstants, base \in DigitBases,
             maxDigits \in DigitCounts :
             GetConstantInBaseCall(constant, base, maxDigits)
    \/ NewPiStorage

SpecDigits == Init /\ [][NextDigits]_vars

-----------------------------------------------------------------------------
(* Sequence locator                                                         *)

\* The inner loop: constantDigits[start + i] === messageNumbers[i] for all i.
MatchAt(constantDigits, messageNumbers, start) ==
    \A i \in 0..(Len(messageNumbers) - 1) :
        constantDigits[start + i + 1] = messageNumbers[i + 1]

\* The starts the outer loop visits:
\* for (start = 0; start < constantDigits.length - messageNumbers.length; start++)
LoopStarts(constantDigits, messageNumbers) ==
    {start \in 0..(Len(constantDigits) - 1) :
        start < Len(constantDigits) - Len(messageNumbers)}

Min(S) == CHOOSE x \in S : \A y \in S : x <= y

\* The loop of findOptimalSequence and the two return statements.
Locate(constantDigits, message, constant, base) ==
    LET messageNumbers == messageToNumbers(message)
        hits == {start \in LoopStarts(constantDigits, messageNumbers) :
                    MatchAt(constantDigits, messageNumbers, start)}
    IN  IF hits # {}
        THEN [constant |-> constant, base |-> base, start |-> Min(hits),
              length |-> Len(messageNumbers), found |-> TRUE]
        ELSE [constant |-> constant, base |-> base, start |-> 0,
              length |-> Len(message) * 2, found |-> FALSE]

\* findOptimalSequence(message, constant, base): the tuple returned (or the
\* error getConstantInBase threw), the cache and the Math.random() count.
findOptimalSequence(cache, message, constant, base, tape, drawn) ==
    LET g == getConstantInBase(cache, constant, base, DefaultMaxDigits,
                               tape, drawn)
    IN  IF g.threw
        THEN [threw |-> TRUE, error |-> g.error,
              cache |-> g.cache, drawn |-> g.drawn]
        ELSE [threw |-> FALSE,
              result |-> Locate(g.digits, message, constant, base),
              cache |-> g.cache, drawn |-> g.drawn]

-----------------------------------------------------------------------------
(* Encoder                                                                  *)

\* let constants = ['pi', 'e', 'phi']
menuConstants == <<"pi", "e", "phi">>

\* let bases = [16, 32, 64, 256]
menuBases == <<16, 32, 64, 256>>

\* The (constant, base) pairs in the order of the two nested loops.
Candidates ==
    [n \in 1..(Len(menuConstants) * Len(menuBases)) |->
        [constant |-> menuConstants[((n - 1) \div Len(menuBases)) + 1],
         base |-> menuBases[((n - 1) % Len(menuBases)) + 1]]]

\* Number.prototype.toString(radix) throws a RangeError unless
\* 2 <= radix <= 36.
ToStringThrows(radix) == radix < 2 \/ radix > 36

RECURSIVE ToStringLength(_, _)
\* n.toString(radix).length for an integer n >= 0.
ToStringLength(n, radix) ==
    IF n < radix THEN 1 ELSE 1 + ToStringLength(n \div radix, radix)

\* let encoding_size = result.start.toString(base).length
\*                   + result.length.toString(base).length
EncodingSize(result, base) ==
    ToStringLength(result.start, base) + ToStringLength(result.length, base)

\* let bestLength = Infinity (a value no encoding size reaches)
Infinity == -1

\* let bestResult = null
Null == [null |-> TRUE]

\* The comparison with <= in place of <.
IsBetterOrEqual(encoding_size, bestLength) ==
    bestLength = Infinity \/ encoding_size <= bestLength

\* if (encoding_size < bestLength)
IsBetter(encoding_size, bestLength) ==
    bestLength = Infinity \/ encoding_size < bestLength

RECURSIVE EncodeLoop(_, _, _, _)
\* The two nested loops of encode from candidate n on; st holds the cache,
\* the Math.random() count, bestResult and bestLength.
EncodeLoop(n, message, tape, st) ==
    IF n > Len(Candidates)
    THEN st
    ELSE LET constant == Candidates[n].constant
             base == Candidates[n].base
             f == findOptimalSequence(st.cache, message, constant, base,
                                      tape, st.drawn)
             seen == [st EXCEPT !.cache = f.cache, !.drawn = f.drawn]
         IN  IF f.threw \/ ToStringThrows(base)
             THEN \* catch (e) { continue; }
                  EncodeLoop(n + 1, message, tape, seen)
             ELSE IF IsBetter(EncodingSize(f.result, base), st.bestLength)
             THEN EncodeLoop(n + 1, message, tape,
                      [seen EXCEPT !.bestLength = EncodingSize(f.result, base),
                                   !.bestResult = f.result])
             ELSE EncodeLoop(n + 1, message, tape, seen)

\* encode(message): the tuple returned (or the error thrown) and the cache.
encode(cache, message, tape) ==
    IF Len(message) = 0
    THEN [threw |-> TRUE, error |-> "Message cannot be empty",
          cache |-> cache]
    ELSE LET st == EncodeLoop(1, message, tape,
                       [cache |-> cache, drawn |-> 0,
                        bestResult |-> Null, bestLength |-> Infinity])
         IN  IF st.bestResult = Null
             THEN [threw |-> TRUE, error |-> "Could not encode message",
                   cache |-> st.cache]
             ELSE [threw |-> FALSE, result |-> st.bestResult,
                   cache |-> st.cache]

-----------------------------------------------------------------------------
(* Decoder                                                                  *)

Max2(a, b) == IF a > b THEN a ELSE b

Min2(a, b) == IF a < b THEN a ELSE b

\* Array.prototype.slice(begin, end): a negative index counts from the end,
\* both are clamped to the array, an empty range gives [].
Slice(array, begin, end) ==
    LET k == IF begin < 0 THEN Max2(Len(array) + begin, 0)
             ELSE Min2(begin, Len(array))
        final == IF end < 0 THEN Max2(Len(array) + end, 0)
                 ELSE Min2(end, Len(array))
    IN  SubSeq(array, k + 1, final)

\* decode(constant, base, start, length): the text returned (or the error
\* thrown) and the cache.
decode(cache, constant, base, start, length, tape) ==
    IF ~KnownConstant(constant)
    THEN [threw |-> TRUE, error |-> "Unknown constant", cache |-> cache]
    ELSE LET g == getConstantInBase(cache, constant, base, start + length,
                                    tape, 0)
         IN  [threw |-> FALSE,
              text |-> numbersToMessage(Slice(g.digits, start, start + length)),
              cache |-> g.cache]

-----------------------------------------------------------------------------
(* Calls of the locator, the encoder and the decoder                        *)

\* "AAAAAAAA": twice its length takes two characters in base 16 and one in
\* base 32.
LongMessage == [i \in 1..8 |-> 65]

\* The messages of the callers, as code units: the empty message; 1, a digit
\* of every seed; 2, a digit of e's seed only; 9, a digit of no seed; the
\* pair 1,4 of pi's seed; the pair 9,2 of no seed; "A"; 1 followed by "A";
\* "Hi"; the long message.
Messages ==
    {<<>>, <<1>>, <<2>>, <<9>>, <<1, 4>>, <<9, 2>>, <<65>>, <<1, 65>>,
     <<72, 105>>, LongMessage}

\* piStorage.findOptimalSequence(message) with the default constant and
\* base, or with a constant named by the caller.
LocateConstants == {"pi", "xi"}

FindOptimalSequenceCall(message, constant, base) ==
    \E tape \in TapesFor(Misses(baseDigitsCache, constant, base,
                                DefaultMaxDigits)) :
        \E f \in {findOptimalSequence(baseDigitsCache, message, constant,
                                     base, tape, 0)} :
            /\ baseDigitsCache' = f.cache
            /\ ret' = [op |-> "findOptimalSequence", message |-> message,
                       constant |-> constant, base |-> base,
                       threw |-> f.threw,
                       result |-> IF f.threw THEN Null ELSE f.result]
            /\ UNCHANGED <<encoded, calls>>

NextLocate ==
    \/ \E message \in Messages, constant \in LocateConstants :
          FindOptimalSequenceCall(message, constant, 16)
    \/ NewPiStorage

SpecLocate == Init /\ [][NextLocate]_vars

\* piStorage.encode(message)
Encode(message) ==
    \E tape \in TapesFor(Len(message) > 0 /\ \E n \in DOMAIN Candidates :
                            Misses(baseDigitsCache, Candidates[n].constant,
                                   Candidates[n].base, DefaultMaxDigits)) :
        \E r \in {encode(baseDigitsCache, message, tape)} :
            /\ baseDigitsCache' = r.cache
            /\ ret' = [op |-> "encode", message |-> message,
                       threw |-> r.threw,
                       result |-> IF r.threw THEN Null ELSE r.result]
            /\ encoded' = IF r.threw THEN encoded
                          ELSE [done |-> TRUE, message |-> message,
                                result |-> r.result]

NextEncode == \E message \in Messages : Encode(message) /\ UNCHANGED calls

SpecEncode == Init /\ [][NextEncode]_vars

DecodeConstants == {"pi", "xi"}

DecodeBases == {16}

DecodeStarts == {-1, 0, SeedLen}

DecodeLengths == {-1, 1, 2}

\* piStorage.decode(constant, base, start, length)
Decode(constant, base, start, length) ==
    \E tape \in TapesFor(Misses(baseDigitsCache, constant, base,
                                start + length)) :
        \E d \in {decode(baseDigitsCache, constant, base, start, length, tape)} :
            /\ baseDigitsCache' = d.cache
            /\ ret' = [op |-> "decode", constant |-> constant, base |-> base,
                       start |-> start, length |-> length,
                       threw |-> d.threw,
                       text |-> IF d.threw THEN <<>> ELSE d.text]
            /\ UNCHANGED encoded

Next ==
    /\ calls < MaxCalls
    /\ calls' = calls + 1
    /\ \/ \E message \in Messages : Encode(message)
       \/ \E constant \in DecodeConstants, base \in DecodeBases,
             start \in DecodeStarts, length \in DecodeLengths :
             Decode(constant, base, start, length)

Spec == Init /\ [][Next]_vars

-----------------------------------------------------------------------------
(* Properties                                                               *)

\* The stream encode and findOptimalSequence searched for (constant, base).
Searched(constant, base) ==
    baseDigitsCache[CacheKey(constant, base, DefaultMaxDigits)]

\* The instance still holds the stream searched for (constant, base).
Holds(constant, base) ==
    CacheKey(constant, base, DefaultMaxDigits) \in DOMAIN baseDigitsCache

C2_NoFabricatedTuple ==
    (ret.op = "encode" /\ ~ret.threw)
    => /\ ret.result.found
       /\ ret.result.length = Len(ret.message)
       /\ MatchAt(Searched(ret.result.constant, ret.result.base),
                  messageToNumbers(ret.message), ret.result.start)

C5_CodecRoundTrip ==
    (ret.op = "baseToNumber" /\ ret.rendered)
    => (~ret.out.threw /\ ret.out.value = ret.number)

\* C6: decode with a known constant and a negative start or a negative
\* length fails with an error.
C6_NegativeRangeRejected ==
    (/\ ret.op = "decode"
     /\ KnownConstant(ret.constant)
     /\ (ret.start < 0 \/ ret.length < 0))
    => ret.threw

\* C7: digit range. Every digit of every cached sequence for a base is an
\* integer d with 0 <= d < base.
C7_DigitsBelowBase ==
    \A k \in DOMAIN baseDigitsCache :
        \A i \in 1..Len(baseDigitsCache[k]) :
            baseDigitsCache[k][i] >= 0 /\ baseDigitsCache[k][i] < k[2]

\* The starts s with s + n <= L at which the stream holds the message.
Occurrences(constantDigits, messageNumbers) ==
    {s \in 0..(Len(constantDigits) - Len(messageNumbers)) :
        MatchAt(constantDigits, messageNumbers, s)}

MenuResult(n, message) ==
    Locate(Searched(Candidates[n].constant, Candidates[n].base), message,
           Candidates[n].constant, Candidates[n].base)

\* The combined length of start and length rendered by the base codec.
RenderedSize(result) ==
    Len(numberToBase(result.start, result.base).text)
    + Len(numberToBase(result.length, result.base).text)

Printable(message) == \E i \in 1..Len(message) : message[i] > 9

\* C10: degenerate miss. For a non-empty message with a code unit above 9,
\* encode does not throw and returns found = false with constant pi,
\* start 0, length twice the message length, and base 32 when that length
\* is shorter in base 32 than in base 16, base 16 otherwise, whatever the
\* random digits.
C10_DegenerateMiss ==
    (ret.op = "encode" /\ Printable(ret.message))
    => /\ ~ret.threw
       /\ ret.result =
            [constant |-> "pi",
             base |-> IF ToStringLength(2 * Len(ret.message), 32)
                         < ToStringLength(2 * Len(ret.message), 16)
                      THEN 32 ELSE 16,
             start |-> 0,
             length |-> 2 * Len(ret.message),
             found |-> FALSE]

\* encode has searched all twelve streams for the long message and returned
\* base 32, and a stream holds a random digit other than 0.
C10_Witness ==
    /\ ret.op = "encode"
    /\ ret.message = LongMessage
    /\ ~ret.threw
    /\ ret.result.base = 32
    /\ \A n \in DOMAIN Candidates :
          CacheKey(Candidates[n].constant, Candidates[n].base,
                   DefaultMaxDigits) \in DOMAIN baseDigitsCache
    /\ Searched("phi", 256)[DefaultMaxDigits] # 0

=============================================================================
